---- MODULE Spec2Model ----
(***************************************************************************)
(* Model of neo4j_Main/crud_app.py: the connection-establishment retry     *)
(* procedure connect_with_retry, the step sequence run_crud_example and    *)
(* the main block that owns the driver handle and the process exit code.   *)
(*                                                                         *)
(* The external database client is the environment: the result of          *)
(* constructing a driver, of verify_connectivity() and of every query is   *)
(* chosen nondeterministically among the outcomes the client can produce.  *)
(***************************************************************************)
EXTENDS Integers, Sequences, FiniteSets

VARIABLES
    mode,           \* "main": the script is run; "call": connect_with_retry is called directly
    max_retries,    \* parameter of connect_with_retry
    delay_seconds,  \* parameter of connect_with_retry
    pc,             \* control position
    it,             \* position of the iterator of range(max_retries)
    attempt,        \* loop variable of connect_with_retry
    cdriver,        \* local variable driver of connect_with_retry (0 = unbound)
    call,           \* connect_with_retry: "notcalled", "running", "returned", "raised"
    result,         \* value returned by connect_with_retry (0 = None)
    exc,            \* exception in flight: "none", "ServiceUnavailable", "Exception", "SystemExit"
    driver,         \* variable driver of the main block (0 = None)
    open,           \* driver objects constructed and not closed
    closed,         \* driver objects closed
    session,        \* "none", "open", "closed"
    step,           \* index in Steps of the next step of run_crud_example
    exitCode,       \* process exit code, -1 while the process runs
    events          \* observable history: <<kind, number>>

vars == <<mode, max_retries, delay_seconds, pc, it, attempt, cdriver, call,
          result, exc, driver, open, closed, session, step, exitCode, events>>

----------------------------------------------------------------------------
(* Bounds of the model and constants of the program *)

MaxRetries == 4

MaxDelay == 5

DefaultMaxRetries == 120

DefaultDelaySeconds == 5

None == 0

Steps == <<"cleanup", "create", "read", "update", "expand", "verify">>

\* what the database answers to the query (or queries) of one step
Replies == {"record", "norecord", "unavailable", "error"}

----------------------------------------------------------------------------
(* The history *)

Emit(ev) == events' = events \o ev

\* the events of one kind, in order
OfKind(kind) == SelectSeq(events, LAMBDA e : e[1] = kind)

\* number of events of one kind
Count(kind) == Len(OfKind(kind))

\* positions of the events of one kind
Pos(kind) == {i \in 1..Len(events) : events[i][1] = kind}

\* the numbers carried by the events of one kind, in order
Values(kind) == LET s == OfKind(kind) IN [i \in 1..Len(s) |-> s[i][2]]

RECURSIVE SumSeq(_)
SumSeq(s) == IF s = <<>> THEN 0 ELSE Head(s) + SumSeq(Tail(s))

----------------------------------------------------------------------------
(* connect_with_retry *)

Init ==
    /\ mode \in {"main", "call"}
    /\ max_retries \in (IF mode = "main" THEN {DefaultMaxRetries} ELSE 0..MaxRetries)
    /\ delay_seconds \in (IF mode = "main" THEN {DefaultDelaySeconds} ELSE 0..MaxDelay)
    /\ pc = IF mode = "main" THEN "main" ELSE "loop"
    /\ call = IF mode = "main" THEN "notcalled" ELSE "running"
    /\ it = 0
    /\ attempt = 0
    /\ cdriver = None
    /\ result = None
    /\ exc = "none"
    /\ driver = None
    /\ open = {}
    /\ closed = {}
    /\ session = "none"
    /\ step = 1
    /\ exitCode = -1
    /\ events = <<>>

\* the test of line 126 written attempt < max_retries
AttemptsRemainOffByOne == attempt < max_retries

\* line 126: the test that decides between the delay and the re-raise
AttemptsRemain == attempt < max_retries - 1

\* line 117: the for loop binds the next attempt number
LoopNext ==
    /\ pc = "loop"
    /\ it < max_retries
    /\ attempt' = it
    /\ it' = it + 1
    /\ pc' = "construct"
    /\ Emit(<< <<"attempt", it + 1>> >>)
    /\ UNCHANGED <<mode, max_retries, delay_seconds, cdriver, call, result, exc,
                   driver, open, closed, session, step, exitCode>>

\* lines 117, 132: the range is exhausted, the function returns None
LoopExhausted ==
    /\ pc = "loop"
    /\ it >= max_retries
    /\ call' = "returned"
    /\ result' = None
    /\ pc' = "returned"
    /\ Emit(<< <<"return", None>> >>)
    /\ UNCHANGED <<mode, max_retries, delay_seconds, it, attempt, cdriver, exc,
                   driver, open, closed, session, step, exitCode>>

\* the driver returned as constructed, without the call of verify_connectivity
ConstructReturnsUnverified ==
    /\ pc = "construct"
    /\ cdriver' = attempt + 1
    /\ open' = open \cup {attempt + 1}
    /\ call' = "returned"
    /\ result' = attempt + 1
    /\ pc' = "returned"
    /\ Emit(<< <<"return", attempt + 1>> >>)
    /\ UNCHANGED <<mode, max_retries, delay_seconds, it, attempt, exc,
                   driver, closed, session, step, exitCode>>

\* line 119: GraphDatabase.driver constructs a driver object
Construct ==
    /\ pc = "construct"
    /\ cdriver' = attempt + 1
    /\ open' = open \cup {attempt + 1}
    /\ pc' = "verify"
    /\ UNCHANGED <<mode, max_retries, delay_seconds, it, attempt, call, result, exc,
                   driver, closed, session, step, exitCode, events>>

\* lines 119, 130-131: the constructor rejects its arguments (malformed address);
\* the error is no ServiceUnavailable and is raised to the caller
ConstructFails ==
    /\ pc = "construct"
    /\ exc' = "Exception"
    /\ call' = "raised"
    /\ pc' = "raised"
    /\ Emit(<< <<"other", attempt + 1>>, <<"raise", attempt + 1>> >>)
    /\ UNCHANGED <<mode, max_retries, delay_seconds, it, attempt, cdriver, result,
                   driver, open, closed, session, step, exitCode>>

\* lines 121-123: the connectivity check succeeds, the driver is returned
VerifyOk ==
    /\ pc = "verify"
    /\ call' = "returned"
    /\ result' = cdriver
    /\ pc' = "returned"
    /\ Emit(<< <<"established", attempt + 1>>, <<"return", cdriver>> >>)
    /\ UNCHANGED <<mode, max_retries, delay_seconds, it, attempt, cdriver, exc,
                   driver, open, closed, session, step, exitCode>>

\* the retry message printed with attempt in the place of attempt + 1
VerifyUnavailableMisnumbered ==
    /\ pc = "verify"
    /\ exc' = "ServiceUnavailable"
    /\ pc' = "handler"
    /\ Emit(<< <<"unavailable", attempt + 1>>, <<"retrymsg", attempt>> >>)
    /\ UNCHANGED <<mode, max_retries, delay_seconds, it, attempt, cdriver, call,
                   result, driver, open, closed, session, step, exitCode>>

\* lines 121, 124-125: the check raises ServiceUnavailable; the handler prints
\* the retry message before it tests the attempt number
VerifyUnavailable ==
    /\ pc = "verify"
    /\ exc' = "ServiceUnavailable"
    /\ pc' = "handler"
    /\ Emit(<< <<"unavailable", attempt + 1>>, <<"retrymsg", attempt + 1>> >>)
    /\ UNCHANGED <<mode, max_retries, delay_seconds, it, attempt, cdriver, call,
                   result, driver, open, closed, session, step, exitCode>>

\* the next iteration is started without the call of time.sleep
SleepOmitted ==
    /\ pc = "handler"
    /\ attempt < max_retries - 1
    /\ exc' = "none"
    /\ pc' = "loop"
    /\ UNCHANGED <<mode, max_retries, delay_seconds, it, attempt, cdriver, call,
                   result, driver, open, closed, session, step, exitCode, events>>

\* lines 126-127: attempts remain: time.sleep(delay_seconds), then the next iteration
Sleep ==
    /\ pc = "handler"
    /\ AttemptsRemain
    /\ exc' = "none"
    /\ pc' = "loop"
    /\ Emit(<< <<"sleep", delay_seconds>> >>)
    /\ UNCHANGED <<mode, max_retries, delay_seconds, it, attempt, cdriver, call,
                   result, driver, open, closed, session, step, exitCode>>

\* lines 128-129: the last attempt failed: the ServiceUnavailable is re-raised
Reraise ==
    /\ pc = "handler"
    /\ ~AttemptsRemain
    /\ call' = "raised"
    /\ pc' = "raised"
    /\ Emit(<< <<"reraise", attempt + 1>> >>)
    /\ UNCHANGED <<mode, max_retries, delay_seconds, it, attempt, cdriver, result,
                   exc, driver, open, closed, session, step, exitCode>>

\* every exception of the check handled by the retry clause
VerifyOtherRetried ==
    /\ pc = "verify"
    /\ exc' = "Exception"
    /\ pc' = "handler"
    /\ Emit(<< <<"other", attempt + 1>>, <<"retrymsg", attempt + 1>> >>)
    /\ UNCHANGED <<mode, max_retries, delay_seconds, it, attempt, cdriver, call,
                   result, driver, open, closed, session, step, exitCode>>

\* lines 121, 130-131: the check raises another error (authentication, ...): raise e
VerifyOther ==
    /\ pc = "verify"
    /\ exc' = "Exception"
    /\ call' = "raised"
    /\ pc' = "raised"
    /\ Emit(<< <<"other", attempt + 1>>, <<"raise", attempt + 1>> >>)
    /\ UNCHANGED <<mode, max_retries, delay_seconds, it, attempt, cdriver, result,
                   driver, open, closed, session, step, exitCode>>

connect_with_retry ==
    \/ LoopNext
    \/ LoopExhausted
    \/ Construct
    \/ ConstructFails
    \/ VerifyOk
    \/ VerifyUnavailable
    \/ Sleep
    \/ Reraise
    \/ VerifyOther

----------------------------------------------------------------------------
(* The transaction functions and the inline steps of run_crud_example: the   *)
(* outcome of a step for each answer of the database.  "ok": the step prints *)
(* its success line; "raise": an exception leaves the step; "notfound": the  *)
(* step prints a failure line and falls through.                             *)

Raises(reply) == reply \in {"unavailable", "error"}

\* lines 15-19: the result of tx.run is not inspected
clear_database(reply) == IF Raises(reply) THEN "raise" ELSE "ok"

\* create_task printing the failure of a missing record without raising it
create_task_lenient(reply) ==
    IF Raises(reply) THEN "raise"
    ELSE IF reply = "record" THEN "ok" ELSE "notfound"

\* lines 21-30
create_task(reply) == IF reply = "record" THEN "ok" ELSE "raise"

\* lines 73-80
read_task(reply) == IF reply = "record" THEN "ok" ELSE "raise"

\* lines 32-41
update_task(reply) == IF reply = "record" THEN "ok" ELSE "raise"

\* lines 43-56: the results of both tx.run calls are not inspected
create_person_and_relationship(reply) == IF Raises(reply) THEN "raise" ELSE "ok"

\* lines 90-102: a missing record is printed and not raised
verify_relationship(reply) ==
    IF Raises(reply) THEN "raise"
    ELSE IF reply = "record" THEN "ok" ELSE "notfound"

StepOutcome(name, reply) ==
    CASE name = "cleanup" -> clear_database(reply)
      [] name = "create"  -> create_task(reply)
      [] name = "read"    -> read_task(reply)
      [] name = "update"  -> update_task(reply)
      [] name = "expand"  -> create_person_and_relationship(reply)
      [] name = "verify"  -> verify_relationship(reply)

\* the exception a failing step raises
StepException(reply) == IF reply = "unavailable" THEN "ServiceUnavailable" ELSE "Exception"

----------------------------------------------------------------------------
(* run_crud_example *)

\* lines 62-65: the banner is printed and the session is opened
CrudBegin ==
    /\ pc = "crud"
    /\ session' = "open"
    /\ step' = 1
    /\ pc' = "steps"
    /\ Emit(<< <<"session", driver>> >>)
    /\ UNCHANGED <<mode, max_retries, delay_seconds, it, attempt, cdriver, call,
                   result, exc, driver, open, closed, exitCode>>

\* line 65: driver.session raises
SessionFails ==
    /\ pc = "crud"
    /\ exc' = "Exception"
    /\ pc' = "crud_except"
    /\ Emit(<< <<"sessionfail", driver>> >>)
    /\ UNCHANGED <<mode, max_retries, delay_seconds, it, attempt, cdriver, call,
                   result, driver, open, closed, session, step, exitCode>>

\* lines 67-102: the next step runs against the open session
RunStep(reply) ==
    /\ pc = "steps"
    /\ LET o == StepOutcome(Steps[step], reply) IN
         CASE o = "ok" ->
                /\ Emit(<< <<"begin", step>>, <<"ok", step>> >>)
                /\ step' = step + 1
                /\ pc' = IF step < Len(Steps) THEN "steps" ELSE "persist"
                /\ UNCHANGED <<exc, session>>
           [] o = "notfound" ->
                /\ Emit(<< <<"begin", step>>, <<"notfound", step>> >>)
                /\ step' = step + 1
                /\ pc' = IF step < Len(Steps) THEN "steps" ELSE "persist"
                /\ UNCHANGED <<exc, session>>
           [] o = "raise" ->
                \* the with statement closes the session on the way out
                /\ Emit(<< <<"begin", step>>, <<"fail", step>> >>
                        \o (IF StepException(reply) = "ServiceUnavailable"
                            THEN << <<"stepunavailable", step>> >> ELSE <<>>))
                /\ exc' = StepException(reply)
                /\ session' = "closed"
                /\ pc' = "crud_except"
                /\ UNCHANGED step
    /\ UNCHANGED <<mode, max_retries, delay_seconds, it, attempt, cdriver, call,
                   result, driver, open, closed, exitCode>>

\* lines 104-105, 112: the last lines are printed, the session is closed by the
\* with statement, the function returns to the main block
CrudComplete ==
    /\ pc = "persist"
    /\ session' = "closed"
    /\ pc' = "finally"
    /\ Emit(<< <<"complete", driver>> >>)
    /\ UNCHANGED <<mode, max_retries, delay_seconds, it, attempt, cdriver, call,
                   result, exc, driver, open, closed, step, exitCode>>

\* a bare except clause in the main block: SystemExit is caught as well
MainCatchesAll(e) == TRUE

\* line 143: except Exception catches every exception but SystemExit
MainCatches(e) == e # "SystemExit"

\* the handler without its sys.exit(1): the error is printed and the function returns
CrudExceptNoExit ==
    /\ pc = "crud_except"
    /\ exc' = "none"
    /\ pc' = "finally"
    /\ Emit(<< <<"crud_errmsg", step>> >>)
    /\ UNCHANGED <<mode, max_retries, delay_seconds, it, attempt, cdriver, call,
                   result, driver, open, closed, session, step, exitCode>>

\* lines 107-110: except Exception: the error is printed, sys.exit(1) raises
\* SystemExit, which propagates to the try statement of the main block
CrudExcept ==
    /\ pc = "crud_except"
    /\ exc' = "SystemExit"
    /\ pc' = IF MainCatches("SystemExit") THEN "caught" ELSE "finally"
    /\ Emit(<< <<"crud_errmsg", step>> >>)
    /\ UNCHANGED <<mode, max_retries, delay_seconds, it, attempt, cdriver, call,
                   result, driver, open, closed, session, step, exitCode>>

run_crud_example ==
    \/ CrudBegin
    \/ SessionFails
    \/ \E reply \in Replies : RunStep(reply)
    \/ CrudComplete
    \/ CrudExcept

----------------------------------------------------------------------------
(* The main block *)

\* lines 110, 145: the argument of both sys.exit calls
ExitFailure == 1

\* the exit code of the interpreter: that of a SystemExit in flight, else 0
ExitStatus == IF exc = "SystemExit" THEN ExitFailure ELSE 0

\* lines 136-138: driver = None, connect_with_retry is called with its defaults
MainBegin ==
    /\ pc = "main"
    /\ driver' = None
    /\ call' = "running"
    /\ pc' = "loop"
    /\ UNCHANGED <<mode, max_retries, delay_seconds, it, attempt, cdriver, result,
                   exc, open, closed, session, step, exitCode, events>>

\* lines 138-141: the returned value is bound; run_crud_example is called if it is truthy
MainAssign ==
    /\ mode = "main"
    /\ pc = "returned"
    /\ driver' = result
    /\ pc' = IF result # None THEN "crud" ELSE "finally"
    /\ UNCHANGED <<mode, max_retries, delay_seconds, it, attempt, cdriver, call,
                   result, exc, open, closed, session, step, exitCode, events>>

\* lines 143-145: an exception caught by the main block (one raised by
\* connect_with_retry): the message is printed, sys.exit(1)
MainExcept ==
    /\ mode = "main"
    /\ pc \in {"raised", "caught"}
    /\ MainCatches(exc)
    /\ exc' = "SystemExit"
    /\ pc' = "finally"
    /\ Emit(<< <<"main_errmsg", attempt + 1>> >>)
    /\ UNCHANGED <<mode, max_retries, delay_seconds, it, attempt, cdriver, call,
                   result, driver, open, closed, session, step, exitCode>>

\* the close written after the try statement: skipped when an exception is in flight
FinallyAfterTry ==
    /\ pc = "finally"
    /\ IF driver # None /\ exc = "none"
         THEN /\ open' = open \ {driver}
              /\ closed' = closed \cup {driver}
              /\ Emit(<< <<"close", driver>> >>)
         ELSE UNCHANGED <<open, closed, events>>
    /\ pc' = "terminate"
    /\ UNCHANGED <<mode, max_retries, delay_seconds, it, attempt, cdriver, call,
                   result, exc, driver, session, step, exitCode>>

\* lines 147-150: finally: the driver, if bound, is closed
Finally ==
    /\ pc = "finally"
    /\ IF driver # None
         THEN /\ open' = open \ {driver}
              /\ closed' = closed \cup {driver}
              /\ Emit(<< <<"close", driver>> >>)
         ELSE UNCHANGED <<open, closed, events>>
    /\ pc' = "terminate"
    /\ UNCHANGED <<mode, max_retries, delay_seconds, it, attempt, cdriver, call,
                   result, exc, driver, session, step, exitCode>>

\* the interpreter terminates with the exit status
Terminate ==
    /\ pc = "terminate"
    /\ exitCode' = ExitStatus
    /\ pc' = "exited"
    /\ Emit(<< <<"exit", ExitStatus>> >>)
    /\ UNCHANGED <<mode, max_retries, delay_seconds, it, attempt, cdriver, call,
                   result, exc, driver, open, closed, session, step>>

main ==
    \/ MainBegin
    \/ MainAssign
    \/ MainExcept
    \/ Finally
    \/ Terminate

Next ==
    \/ connect_with_retry
    \/ run_crud_example
    \/ main

Spec == Init /\ [][Next]_vars

\* every attempt and every delay completes, every statement is executed
FairSpec == Spec /\ WF_vars(Next)

----------------------------------------------------------------------------
(* The states of the establisher, read off the call *)

EstablisherState ==
    CASE call = "notcalled" -> "Idle"
      [] call = "running"   -> "Connecting"
      [] call = "raised"    -> "Failed"
      [] call = "returned"  -> IF result # None THEN "Connected" ELSE "NoHandle"

\* <<1, 2, ..., n>>
UpTo(n) == [i \in 1..n |-> i]

----------------------------------------------------------------------------
(* C1: when the connectivity check fails with ServiceUnavailable on attempts *)
(* 1..k-1 and succeeds on attempt k <= N (N >= 1), connect_with_retry        *)
(* returns the handle of attempt k, has slept exactly k-1 times and makes no *)
(* attempt after attempt k.                                                  *)
C1_ReturnsAtAttemptK ==
    (max_retries >= 1 /\ Count("established") > 0) =>
        LET k == Values("established")[1] IN
          /\ k <= max_retries
          /\ Values("established") = <<k>>
          /\ Values("unavailable") = UpTo(k - 1)
          /\ Values("attempt") = UpTo(k)
          /\ Count("sleep") = k - 1
          /\ call = "returned"
          /\ result = k
          /\ Values("return") = <<k>>
          /\ k \in open \cup closed

C1_Witness ==
    /\ mode = "call"
    /\ max_retries = 4
    /\ call = "returned"
    /\ result = 3
    /\ Values("unavailable") = <<1, 2>>

(* C2: when the connectivity check fails with ServiceUnavailable on every    *)
(* attempt (N >= 1), connect_with_retry raises the ServiceUnavailable after  *)
(* exactly N attempts and exactly N-1 delays and returns no handle.          *)
C2_RaisesAfterNAttempts ==
    (max_retries >= 1 /\ Count("unavailable") = max_retries) =>
        /\ Values("attempt") = UpTo(max_retries)
        /\ Count("sleep") = max_retries - 1
        /\ Count("return") = 0
        /\ result = None
        /\ call \in {"running", "raised"}
        /\ call = "running" => pc = "handler" /\ exc = "ServiceUnavailable"
        /\ call = "raised" => Values("reraise") = <<max_retries>> /\ Count("raise") = 0
        /\ (call = "raised" /\ mode = "call") => exc = "ServiceUnavailable"

C2_Witness ==
    /\ mode = "call"
    /\ max_retries = 3
    /\ call = "raised"
    /\ Values("unavailable") = <<1, 2, 3>>
    /\ Count("sleep") = 2

(* C3: an error other than ServiceUnavailable raised on attempt j is raised  *)
(* to the caller at once: no attempt j+1 and no delay follow it; on attempt  *)
(* 1 the call ends with zero delays and exactly one attempt.                 *)
C3_NonTransientNotRetried ==
    \A i \in Pos("other") :
        LET j == events[i][2] IN
          /\ call = "raised"
          /\ result = None
          /\ events[i + 1] = <<"raise", j>>
          /\ \A m \in (i + 1)..Len(events) : events[m][1] \notin {"attempt", "sleep", "retrymsg"}
          /\ Values("attempt") = UpTo(j)
          /\ Count("sleep") = j - 1
          /\ j = 1 => (Count("sleep") = 0 /\ Count("attempt") = 1)

C3_Witness ==
    /\ mode = "call"
    /\ max_retries = 4
    /\ call = "raised"
    /\ Values("other") = <<1>>
    /\ Count("sleep") = 0
    /\ Count("attempt") = 1

(* C4: the process exits with code 0 only when the connection was            *)
(* established and every step (cleanup, create, read, update, expand,        *)
(* verify) succeeded; when the attempts are exhausted or a step fails, the   *)
(* verify step finding no record included, it exits with code 1.             *)
FullSuccess == Count("established") = 1 /\ Values("ok") = UpTo(Len(Steps))

C4_ExitZeroOnlyOnFullSuccess ==
    pc = "exited" =>
        /\ exitCode \in {0, 1}
        /\ exitCode = 0 <=> FullSuccess

(* C5: a handle that connect_with_retry returned to the main block is closed *)
(* before the process terminates, on every exit path.                        *)
C5_HandleClosedBeforeExit ==
    (mode = "main" /\ call = "returned" /\ result # None /\ pc \in {"terminate", "exited"}) =>
        /\ result \in closed
        /\ result \notin open
        /\ Values("close") = <<result>>
        /\ \A i \in Pos("exit") : \A j \in Pos("close") : j < i

C5_Witness ==
    /\ pc = "exited"
    /\ exitCode = 1
    /\ Count("fail") = 1
    /\ result # None
    /\ result \in closed

(* C6: at the first fatal error of the step sequence (an error raised by a   *)
(* step, or a missing record) the program stops: no step is run after it,    *)
(* the error is reported, and the process ends with a non-zero exit code     *)
(* after the handle has been closed.                                         *)
FatalPos == Pos("fail") \cup Pos("notfound") \cup Pos("sessionfail")

C6_StopsAtFirstFatal ==
    \A i \in FatalPos :
        /\ \A m \in (i + 1)..Len(events) : events[m][1] \notin {"begin", "session"}
        /\ Cardinality(FatalPos) = 1
        /\ pc = "exited" =>
             /\ exitCode # 0
             /\ Count("crud_errmsg") = 1
             /\ driver \in closed
             /\ \A x \in Pos("exit") : \A c \in Pos("close") : c < x

(* C7: for every max_retries, 0 included, a call of connect_with_retry ends  *)
(* by returning a verified handle or by raising; it never returns without a  *)
(* handle.                                                                   *)
C7_HandleOrFailure ==
    /\ call = "returned" => (result # None /\ Values("established") = <<result>>)
    /\ call = "raised" => (result = None /\ Count("raise") + Count("reraise") = 1)

(* C8: connect_with_retry terminates in Connected (handle returned) or in    *)
(* Failed (error raised), for every max_retries and every behaviour of the   *)
(* endpoint.                                                                 *)
C8_ReachesConnectedOrFailed ==
    <>(EstablisherState \in {"Connected", "Failed"})

(* C9: the establisher moves between Connecting, Connected and Failed only:  *)
(* Connecting -> Connected on a successful check, Connecting -> Connecting   *)
(* with one delay on a ServiceUnavailable with attempts remaining,           *)
(* Connecting -> Failed on a ServiceUnavailable of the last attempt or on    *)
(* another error; nothing leaves Connected or Failed.                        *)
C9_Transition ==
    LET s == EstablisherState
        t == EstablisherState'
        new == SubSeq(events', Len(events) + 1, Len(events'))
    IN  /\ t \in {"Idle", "Connecting", "Connected", "Failed"}
        /\ s = "Idle" => t \in {"Idle", "Connecting"}
        /\ s \in {"Connected", "Failed"} => t = s
        /\ (s = "Connecting" /\ t = "Connected") =>
               new = << <<"established", attempt + 1>>, <<"return", result'>> >>
        /\ (s = "Connecting" /\ t = "Failed") =>
               \/ new = << <<"reraise", max_retries>> >> /\ exc = "ServiceUnavailable"
               \/ new = << <<"other", attempt + 1>>, <<"raise", attempt + 1>> >>
        /\ (s = "Connecting" /\ t = "Connecting" /\ attempt' # attempt) =>
               /\ attempt' = attempt + 1
               /\ attempt' < max_retries
               /\ events[Len(events)] = <<"sleep", delay_seconds>>
               /\ events[Len(events) - 1] = <<"retrymsg", attempt + 1>>

C9_StateMachine == [][C9_Transition]_vars

(* C10: when the check fails with ServiceUnavailable k-1 times and succeeds  *)
(* on attempt k <= N, exactly k-1 retry messages are printed, numbered       *)
(* 1..k-1 in order, each before its delay, and the delays add up to          *)
(* (k-1) * delay_seconds.                                                    *)
C10_RetryMessagesAndDelay ==
    (max_retries >= 1 /\ Count("established") > 0) =>
        LET k == Values("established")[1] IN
          /\ Values("retrymsg") = UpTo(k - 1)
          /\ Values("sleep") = [i \in 1..(k - 1) |-> delay_seconds]
          /\ SumSeq(Values("sleep")) = (k - 1) * delay_seconds
          /\ \A i \in Pos("sleep") : events[i - 1][1] = "retrymsg"
          /\ \A i \in Pos("retrymsg") : events[i + 1][1] = "sleep"

C10_Witness ==
    /\ max_retries = 3
    /\ delay_seconds = 5
    /\ call = "returned"
    /\ result = 3
    /\ Values("retrymsg") = <<1, 2>>
    /\ SumSeq(Values("sleep")) = 10

(* C11: run_crud_example runs the steps in the order cleanup, create, read,  *)
(* update, expand, verify, each at most once, and starts a step only after   *)
(* every earlier step has completed successfully.                            *)
C11_StepsInOrder ==
    /\ Count("begin") <= Len(Steps)
    /\ Values("begin") = UpTo(Count("begin"))
    /\ \A i \in Pos("begin") :
          LET j == events[i][2]
              done == SelectSeq(SubSeq(events, 1, i - 1), LAMBDA e : e[1] = "ok")
          IN  /\ Len(done) = j - 1
              /\ \A n \in 1..(j - 1) : done[n] = <<"ok", n>>
              /\ \A m \in 1..(i - 1) : events[m][1] \notin {"fail", "notfound", "sessionfail"}
    /\ Count("session") <= 1

C11_Witness ==
    /\ Values("begin") = UpTo(Len(Steps))
    /\ Values("ok") = UpTo(Len(Steps))
    /\ pc = "exited"

(* C12: no session and no step is started unless the establisher has reached *)
(* Connected, that is unless a connectivity check of the handle in use has   *)
(* succeeded; when the establisher ends in Failed the process exits without  *)
(* running a step.                                                           *)
StepActivity == Count("session") + Count("sessionfail") + Count("begin")

C12_StepsOnlyWhenConnected ==
    /\ (StepActivity > 0 \/ pc \in {"crud", "steps", "persist", "crud_except"}) =>
          /\ EstablisherState = "Connected"
          /\ driver = result
          /\ Values("established") = <<driver>>
          /\ \A i \in Pos("established") :
                \A m \in 1..i : events[m][1] \notin {"session", "sessionfail", "begin"}
    /\ EstablisherState = "Failed" =>
          /\ StepActivity = 0
          /\ session = "none"
          /\ pc = "exited" => exitCode = ExitFailure

C12_Witness ==
    /\ Count("begin") > 0
    /\ Count("unavailable") > 0
    /\ EstablisherState = "Connected"
    /\ session = "open"

C12_WitnessFailed ==
    /\ EstablisherState = "Failed"
    /\ pc = "exited"
    /\ StepActivity = 0

(* C13: every ServiceUnavailable is retried up to a bound before the process *)
(* gives up, whether it is raised while connecting or while a step is        *)
(* running; only failures of other kinds end the process without a retry.    *)
BeginsOf(j) == Cardinality({b \in Pos("begin") : events[b][2] = j})

C13_EveryTransientRetried ==
    /\ Count("reraise") > 0 => Count("attempt") = max_retries
    /\ \A i \in Pos("stepunavailable") :
          pc = "exited" => BeginsOf(events[i][2]) >= 2

(* C13 as amended: a ServiceUnavailable of the connectivity check is retried *)
(* after one delay while attempts remain and re-raised on the last attempt;  *)
(* a ServiceUnavailable raised while a step is running is not retried: the   *)
(* step is not run again, no later step is run, and the process exits with   *)
(* code 1.                                                                   *)
C13_TransientRetriedOnlyWhileConnecting ==
    /\ \A i \in Pos("unavailable") :
          LET j == events[i][2] IN
            IF j < max_retries
              THEN /\ Len(events) >= i + 2 => events[i + 2] = <<"sleep", delay_seconds>>
                   /\ Len(events) >= i + 3 => events[i + 3] = <<"attempt", j + 1>>
              ELSE /\ Len(events) >= i + 2 => events[i + 2] = <<"reraise", j>>
    /\ \A i \in Pos("stepunavailable") :
          /\ BeginsOf(events[i][2]) = 1
          /\ \A m \in (i + 1)..Len(events) : events[m][1] \notin {"begin", "session", "sleep"}
          /\ pc = "exited" => exitCode = ExitFailure

C13_Witness ==
    /\ pc = "exited"
    /\ Count("sleep") >= 1
    /\ Count("stepunavailable") = 1
    /\ exitCode = 1

(* C14: a retry message is printed only when a delay and a further attempt   *)
(* follow it; on the ServiceUnavailable of the last attempt the failure is   *)
(* re-raised without a retry message, so that there are as many retry        *)
(* messages as delays.                                                       *)
C14_RetryMessageOnlyBeforeDelay ==
    /\ \A i \in Pos("retrymsg") :
          /\ events[i][2] < max_retries
          /\ i < Len(events) => events[i + 1][1] = "sleep"
    /\ pc # "handler" => Count("retrymsg") = Count("sleep")

(* C15: in every reachable state of connect_with_retry the number of         *)
(* attempts started is at most N, the number of delays is at most N-1 and    *)
(* strictly less than the number of attempts started, and no delay occurs    *)
(* after the final attempt.                                                  *)
NoDelayAfterFinalAttempt ==
    \A i \in Pos("attempt") :
        events[i][2] = max_retries =>
            \A m \in (i + 1)..Len(events) : events[m][1] # "sleep"

C15_AttemptAndDelayBounds ==
    /\ Count("attempt") <= max_retries
    /\ Count("sleep") <= max_retries - 1
    /\ Count("sleep") < Count("attempt")
    /\ NoDelayAfterFinalAttempt

(* C15 as amended: the number of attempts started is at most N and the     *)
(* number of delays is at most N-1 (0 for N = 0) and at most the number of   *)
(* attempts started; it is strictly less than the number of attempts started *)
(* except before the first attempt and between a delay and the start of the  *)
(* attempt that follows it, where the two are equal; no delay occurs after   *)
(* the final attempt.                                                        *)
C15_BoundsOnceStarted ==
    /\ Count("attempt") <= max_retries
    /\ Count("sleep") <= (IF max_retries >= 1 THEN max_retries - 1 ELSE 0)
    /\ Count("sleep") <= Count("attempt")
    /\ IF pc = "loop" \/ Count("attempt") = 0
         THEN Count("sleep") = Count("attempt")
         ELSE Count("sleep") < Count("attempt")
    /\ NoDelayAfterFinalAttempt

C15_Witness ==
    /\ mode = "call"
    /\ max_retries >= 3
    /\ Count("attempt") = max_retries
    /\ Count("sleep") = max_retries - 1
    /\ Count("other") = 1
    /\ call = "raised"

(* C16: every driver object constructed by connect_with_retry, those of the  *)
(* attempts whose connectivity check failed included, has been closed when   *)
(* the process terminates: no constructed driver remains open.               *)
C16_NoDriverLeftOpen ==
    pc = "exited" => open = {}

(* C17: a failing run reports its failure exactly once: a failure of a step  *)
(* by the message of run_crud_example and never also by the message of the   *)
(* main block, a failure of connect_with_retry by the message of the main    *)
(* block only; in both cases the exit code is 1.                             *)
StepFailed == Count("fail") + Count("sessionfail") > 0

C17_WitnessConnect ==
    /\ pc = "exited"
    /\ call = "raised"
    /\ Count("main_errmsg") = 1
    /\ exitCode = 1

====
